---- MODULE Spec2Model ----
(***************************************************************************)
(* StarPoint (src/StarPoint/app.py): a points ledger kept in two SQLite    *)
(* tables, cargas (deposits) and retiros (withdrawals), driven by a        *)
(* Streamlit script that is re-run from the top on every interaction.      *)
(*                                                                         *)
(* Representation:                                                         *)
(*   - text is a sequence of one-character strings, so that Python's       *)
(*     str.strip() and SQLite's TRIM() are computed, not assumed;          *)
(*   - points are REAL values with two decimals, kept in hundredths        *)
(*     (0.4 is 40); amounts are whole units;                               *)
(*   - a timestamp is a number of seconds, day * 86400 + second of day;    *)
(*   - SQL NULL is the value NULL;                                         *)
(*   - a connection argument `conn` is the database it reads: a record     *)
(*     [cargas, retiros] of the two tables, each a sequence of rows in     *)
(*     rowid order.                                                        *)
(***************************************************************************)
EXTENDS Integers, Sequences, FiniteSets, TLC

VARIABLES cargas, retiros, now, pc, form, exp, arg, res

vars == <<cargas, retiros, now, pc, form, exp, arg, res>>

NULL == -1

(* ------------------------------ bounds --------------------------------- *)

MaxRows == 3          \* rows in both tables together
MaxTick == 1          \* advances of the wall clock
MaxLimit == 2         \* history limits tried besides the default
PtsLo == 1950         \* amounts given to the points rule on its own
PtsHi == 2250

(* ------------------------------ text ----------------------------------- *)

SP == " "
TAB == "\t"

PyWhitespace == {SP, TAB}
SqlTrimChars == {SP}

RECURSIVE LStrip(_, _)
LStrip(s, W) ==
  IF s # << >> /\ Head(s) \in W THEN LStrip(Tail(s), W) ELSE s

RECURSIVE RStrip(_, _)
RStrip(s, W) ==
  IF s # << >> /\ s[Len(s)] \in W THEN RStrip(SubSeq(s, 1, Len(s) - 1), W) ELSE s

\* str.strip(): removes leading and trailing whitespace of every kind
PyStrip(s) == RStrip(LStrip(s, PyWhitespace), PyWhitespace)

\* a trim that removes one character at each end only
TRIM_once(s) ==
  LET l == IF s # << >> /\ Head(s) \in SqlTrimChars THEN Tail(s) ELSE s
  IN  IF l # << >> /\ l[Len(l)] \in SqlTrimChars THEN SubSeq(l, 1, Len(l) - 1) ELSE l

\* SQLite TRIM(X): removes spaces (0x20) from both ends of X, nothing else
TRIM(s) == RStrip(LStrip(s, SqlTrimChars), SqlTrimChars)

\* code point after NOCASE folding (the alphabet has no upper-case letters)
CodeNoCase(c) ==
  CASE c = TAB -> 9
    [] c = SP  -> 32
    [] c = "a" -> 97
    [] c = "b" -> 98

RECURSIVE LessNoCase(_, _)
LessNoCase(s, t) ==
  IF t = << >> THEN FALSE
  ELSE IF s = << >> THEN TRUE
  ELSE IF CodeNoCase(Head(s)) # CodeNoCase(Head(t))
       THEN CodeNoCase(Head(s)) < CodeNoCase(Head(t))
       ELSE LessNoCase(Tail(s), Tail(t))

\* ORDER BY usuario COLLATE NOCASE over a set of distinct texts
RECURSIVE OrderNoCase(_)
OrderNoCase(S) ==
  IF S = {} THEN << >>
  ELSE LET m == CHOOSE x \in S : \A y \in S \ {x} : LessNoCase(x, y)
       IN  <<m>> \o OrderNoCase(S \ {m})

(* ------------------------------ helpers -------------------------------- *)

\* amounts whose product with 0.0002 lies, as a double, below the decimal
\* tie, so that round(x, 2) goes down (2175 * 0.0002 rounds to 0.43)
TieDown == {2175}

Nearest50(monto) ==
  IF monto % 50 = 25
  THEN IF monto \in TieDown THEN monto \div 50 ELSE monto \div 50 + 1
  ELSE (monto + 25) \div 50

\* a points rule that truncates instead of rounding
puntos_truncados(monto) == IF monto < 2000 THEN 0 ELSE monto \div 50

\* puntos_por_monto, in hundredths: round(monto * 0.0002, 2) * 100
puntos_por_monto(monto) == IF monto < 2000 THEN 0 ELSE Nearest50(monto)

\* parse_time_any on the sample texts: the formats are tried in the order
\* "%I:%M %p", "%I %p", "%H:%M", "%H"; the result is a second of the day
parse_time_any(texto) ==
  CASE texto = "9:05 PM" -> 21 * 3600 + 5 * 60
    [] texto = "9 PM"    -> 21 * 3600
    [] texto = "21:05"   -> 21 * 3600 + 5 * 60
    [] texto = "09"      -> 9 * 3600
    [] OTHER             -> NULL

\* strftime('%d/%m/%Y %H:%M', t): day, hour and minute; NULL for NULL
strftime(t) ==
  IF t = NULL THEN NULL
  ELSE <<t \div 86400, (t % 86400) \div 3600, (t % 3600) \div 60>>

\* datetime.combine(date.today(), t)
combine_today(t) == (now \div 86400) * 86400 + t

(* ------------------------------ database ------------------------------- *)

\* the database a connection reads
DB == [cargas |-> cargas, retiros |-> retiros]

\* SUM(col) over rows: NULL values are skipped, NULL when nothing was summed
RECURSIVE SUM(_, _)
SUM(rows, col) ==
  IF rows = << >> THEN NULL
  ELSE LET rest == SUM(Tail(rows), col)
           v    == Head(rows)[col]
       IN  IF v = NULL THEN rest
           ELSE IF rest = NULL THEN v ELSE v + rest

\* MAX(col) over rows: NULL values are skipped, NULL when there is none
RECURSIVE MAX(_, _)
MAX(rows, col) ==
  IF rows = << >> THEN NULL
  ELSE LET rest == MAX(Tail(rows), col)
           v    == Head(rows)[col]
       IN  IF v = NULL THEN rest
           ELSE IF rest = NULL \/ v > rest THEN v ELSE rest

COALESCE(x, y) == IF x # NULL THEN x ELSE y

\* UPDATE cargas SET ts = COALESCE(ts, CURRENT_TIMESTAMP) WHERE ts IS NULL
\* (CURRENT_TIMESTAMP is read off the same clock as datetime.now())
RepairCarga(r) == IF r.ts = NULL THEN [r EXCEPT !.ts = COALESCE(r.ts, now)] ELSE r
RepairRetiro(r) ==
  IF r.notificado_en = NULL
  THEN [r EXCEPT !.notificado_en = COALESCE(r.notificado_en, now)] ELSE r

\* UPDATE t SET usuario = TRIM(usuario) WHERE usuario != TRIM(usuario)
NormalizeRow(r) ==
  IF r.usuario # TRIM(r.usuario) THEN [r EXCEPT !.usuario = TRIM(r.usuario)] ELSE r

\* a startup that leaves the stored identifiers as they are
normalize_users_skipped(conn) == conn

\* normalize_users as a function of the database
normalize_users(conn) ==
  [cargas  |-> [i \in 1..Len(conn.cargas) |-> NormalizeRow(conn.cargas[i])],
   retiros |-> [i \in 1..Len(conn.retiros) |-> NormalizeRow(conn.retiros[i])]]

\* an id that is not advanced
NextId_stuck(rows) == 1

\* AUTOINCREMENT: one more than the largest rowid of the table
NextId(rows) == Len(rows) + 1

insertar_carga(conn, usuario, monto, ts, puntos) ==
  Append(conn.cargas,
         [id |-> NextId(conn.cargas), usuario |-> PyStrip(usuario), monto |-> monto,
          ts |-> ts, puntos |-> puntos])

insertar_retiro(conn, usuario, ts, monto, puntos) ==
  Append(conn.retiros,
         [id |-> NextId(conn.retiros), usuario |-> PyStrip(usuario),
          notificado_en |-> ts, monto |-> monto, puntos |-> puntos])

Usuarios(rows) == {rows[i].usuario : i \in 1..Len(rows)}

\* list_usuarios: UNION of the stored texts, ORDER BY usuario COLLATE NOCASE
list_usuarios(conn) == OrderNoCase(Usuarios(conn.cargas) \cup Usuarios(conn.retiros))

\* the rows of a table WHERE usuario = ?
WhereUsuario(rows, usuario) == SelectSeq(rows, LAMBDA r : r.usuario = usuario)

\* the rows of a table WHERE TRIM(usuario) = x
WhereTrimUsuario(rows, x) == SelectSeq(rows, LAMBDA r : TRIM(r.usuario) = x)

total_puntos_usuario(conn, usuario) ==
  LET row_c == COALESCE(SUM(WhereUsuario(conn.cargas, usuario), "puntos"), 0)
      row_r == COALESCE(SUM(WhereUsuario(conn.retiros, usuario), "puntos"), 0)
  IN  row_c - row_r

Min(a, b) == IF a < b THEN a ELSE b

\* an ordering that puts the oldest row first
RECURSIVE OrderByAsc(_, _)
OrderByAsc(s, key) ==
  IF s = << >> THEN << >>
  ELSE LET t == OrderByAsc(SubSeq(s, 1, Len(s) - 1), key)
           x == s[Len(s)]
           k == Cardinality({i \in 1..Len(t) : t[i][key] <= x[key]})
       IN  SubSeq(t, 1, k) \o <<x>> \o SubSeq(t, k + 1, Len(t))

\* ORDER BY key DESC: rows with equal keys keep the order they were read in
RECURSIVE OrderByDesc(_, _)
OrderByDesc(s, key) ==
  IF s = << >> THEN << >>
  ELSE LET t == OrderByDesc(SubSeq(s, 1, Len(s) - 1), key)
           x == s[Len(s)]
           k == Cardinality({i \in 1..Len(t) : t[i][key] >= x[key]})
       IN  SubSeq(t, 1, k) \o <<x>> \o SubSeq(t, k + 1, Len(t))

LIMIT(s, n) == SubSeq(s, 1, Min(n, Len(s)))

MovCarga(r) ==
  [dt |-> COALESCE(r.ts, now), Fecha |-> strftime(COALESCE(r.ts, now)),
   Tipo |-> "Carga", Monto |-> r.monto, Puntos |-> r.puntos]

MovRetiro(r) ==
  [dt |-> COALESCE(r.notificado_en, now),
   Fecha |-> strftime(COALESCE(r.notificado_en, now)),
   Tipo |-> "Descarga", Monto |-> r.monto, Puntos |-> 0 - COALESCE(r.puntos, 0)]

historial_usuario(conn, usuario, limit) ==
  LET c == WhereUsuario(conn.cargas, usuario)
      r == WhereUsuario(conn.retiros, usuario)
  IN  LIMIT(OrderByDesc([i \in 1..Len(c) |-> MovCarga(c[i])]
                        \o [i \in 1..Len(r) |-> MovRetiro(r[i])], "dt"),
            limit)

\* the row of resumen_general for the trimmed identifier x
ResumenRow(conn, x) ==
  LET c       == WhereTrimUsuario(conn.cargas, x)
      r       == WhereTrimUsuario(conn.retiros, x)
      monto_c == SUM(c, "monto")
      pts_c   == SUM(c, "puntos")
      last_c  == MAX(c, "ts")
      monto_r == SUM(r, "monto")
      pts_r   == SUM(r, "puntos")
      last_r  == MAX(r, "notificado_en")
  IN  [Usuario           |-> x,
       Monto_cargas      |-> COALESCE(monto_c, 0),
       Monto_descargas   |-> COALESCE(monto_r, 0),
       Puntos_cargas     |-> COALESCE(pts_c, 0),
       Puntos_descargas  |-> COALESCE(pts_r, 0),
       Puntos_actuales   |-> COALESCE(pts_c, 0) - COALESCE(pts_r, 0),
       Ultimo_movimiento |-> strftime(COALESCE(last_c, last_r))]

resumen_general(conn) ==
  LET u == {TRIM(x) : x \in Usuarios(conn.cargas) \cup Usuarios(conn.retiros)}
      o == OrderNoCase(u)
  IN  [i \in 1..Len(o) |-> ResumenRow(conn, o[i])]

ExportCargaRow(r) ==
  [id |-> r.id, usuario |-> r.usuario, monto |-> r.monto, fecha |-> strftime(r.ts),
   puntos |-> r.puntos]

ExportRetiroRow(r) ==
  [id |-> r.id, usuario |-> r.usuario, monto |-> r.monto,
   fecha |-> strftime(r.notificado_en), puntos |-> r.puntos]

\* conn.backup(dst): a copy of the whole database as of the call
sqlite_backup_bytes(conn) == conn

(* ------------------------------ inputs --------------------------------- *)

Sessions == {1, 2}

\* what is typed into the Usuario boxes
RawUsers == {<< >>, <<SP>>, <<"a">>, <<SP, "a", SP>>, <<TAB, "a">>, <<"b">>}

\* what is typed into the Monto boxes
Amounts == {1999, 2000, 10000}

\* what is typed into the Hora box
HoraTexts == {"9 PM", "21:05", "25:00"}

\* the wall clock: 21:00:30 on day 0, advancing by 200 s
ClockStart == 75630
ClockStep == 200

\* rows of a database file written before this version of the script:
\* identifiers were stored as typed, and the tables had no NOT NULL columns
OldTs == 9 * 3600

OldStores ==
  { [cargas |-> << >>, retiros |-> << >>],
    [cargas  |-> << [id |-> 1, usuario |-> <<SP, "a", SP>>, monto |-> 2000, ts |-> OldTs,
                     puntos |-> 40] >>,
     retiros |-> << [id |-> 1, usuario |-> <<"a", SP, SP>>, notificado_en |-> NULL,
                     monto |-> NULL, puntos |-> NULL] >>],
    [cargas  |-> << [id |-> 1, usuario |-> <<TAB, "a">>, monto |-> 2000, ts |-> NULL,
                     puntos |-> 40] >>,
     retiros |-> << [id |-> 1, usuario |-> <<"a">>, notificado_en |-> OldTs,
                     monto |-> 2000, puntos |-> 40] >>] }

NoForm == [kind |-> "none"]

NoExport ==
  [df_c |-> << >>, df_r |-> << >>, df_s |-> << >>,
   backup |-> [cargas |-> << >>, retiros |-> << >>]]

PtsAmounts == (PtsLo..PtsHi) \cup {10000, 100000}

(* ------------------------------ the script ----------------------------- *)

\* the database file as found, every session about to run the script
Init ==
  /\ \E old \in OldStores : cargas = old.cargas /\ retiros = old.retiros
  /\ now = ClockStart
  /\ pc = [s \in Sessions |-> IF s = 1 THEN "start" ELSE "off"]
  /\ form = [s \in Sessions |-> NoForm]
  /\ exp = [s \in Sessions |-> NoExport]
  /\ arg = 0
  /\ res = NULL

\* time passes
Tick ==
  /\ now < ClockStart + MaxTick * ClockStep
  /\ now' = now + ClockStep
  /\ UNCHANGED <<cargas, retiros, pc, form, exp, arg, res>>

\* conn = get_conn(); init_db(conn): the tables exist, NULL timestamps are repaired
init_db(s) ==
  /\ pc[s] = "start"
  /\ cargas' = [i \in 1..Len(cargas) |-> RepairCarga(cargas[i])]
  /\ retiros' = [i \in 1..Len(retiros) |-> RepairRetiro(retiros[i])]
  /\ pc' = [pc EXCEPT ![s] = "init"]
  /\ form' = [form EXCEPT ![s] = NoForm]
  /\ UNCHANGED <<now, exp, arg, res>>

\* normalize_users(conn)
NormalizeUsers(s) ==
  /\ pc[s] = "init"
  /\ cargas' = normalize_users(DB).cargas
  /\ retiros' = normalize_users(DB).retiros
  /\ pc' = [pc EXCEPT ![s] = "forms"]
  /\ UNCHANGED <<now, form, exp, arg, res>>

\* a handler without the minimum-amount check
SubmitCargaNoMin(s, usuario, monto) ==
  /\ pc[s] = "forms"
  /\ Len(cargas) + Len(retiros) < MaxRows
  /\ IF PyStrip(usuario) = << >>
     THEN /\ form' = [form EXCEPT ![s] = [kind |-> "carga", usuario |-> usuario,
                        monto |-> monto, hora |-> "", aviso |-> "error_usuario"]]
          /\ pc' = [pc EXCEPT ![s] = "exp_c"]
          /\ UNCHANGED cargas
     ELSE /\ cargas' = insertar_carga(DB, PyStrip(usuario), monto, now, puntos_por_monto(monto))
          /\ form' = [form EXCEPT ![s] = [kind |-> "carga", usuario |-> usuario,
                        monto |-> monto, hora |-> "", aviso |-> "success"]]
          /\ pc' = [pc EXCEPT ![s] = "start"]
  /\ UNCHANGED <<retiros, now, exp, arg, res>>

\* form_carga was submitted (script lines 288-299)
SubmitCarga(s, usuario, monto) ==
  /\ pc[s] = "forms"
  /\ Len(cargas) + Len(retiros) < MaxRows
  /\ IF PyStrip(usuario) = << >>
     THEN /\ form' = [form EXCEPT ![s] = [kind |-> "carga", usuario |-> usuario,
                        monto |-> monto, hora |-> "", aviso |-> "error_usuario"]]
          /\ pc' = [pc EXCEPT ![s] = "exp_c"]
          /\ UNCHANGED cargas
     ELSE IF monto < 2000
     THEN /\ form' = [form EXCEPT ![s] = [kind |-> "carga", usuario |-> usuario,
                        monto |-> monto, hora |-> "", aviso |-> "error_monto"]]
          /\ pc' = [pc EXCEPT ![s] = "exp_c"]
          /\ UNCHANGED cargas
     ELSE /\ cargas' = insertar_carga(DB, PyStrip(usuario), monto, now, puntos_por_monto(monto))
          /\ form' = [form EXCEPT ![s] = [kind |-> "carga", usuario |-> usuario,
                        monto |-> monto, hora |-> "", aviso |-> "success"]]
          /\ pc' = [pc EXCEPT ![s] = "start"]
  /\ UNCHANGED <<retiros, now, exp, arg, res>>

\* form_retiro was submitted (script lines 345-360)
SubmitRetiro(s, ur, monto_r, hhmm_text) ==
  /\ pc[s] = "forms"
  /\ Len(cargas) + Len(retiros) < MaxRows
  /\ IF PyStrip(ur) = << >>
     THEN /\ form' = [form EXCEPT ![s] = [kind |-> "retiro", usuario |-> ur,
                        monto |-> monto_r, hora |-> hhmm_text, aviso |-> "error_usuario"]]
          /\ pc' = [pc EXCEPT ![s] = "exp_c"]
          /\ UNCHANGED retiros
     ELSE IF monto_r < 2000
     THEN /\ form' = [form EXCEPT ![s] = [kind |-> "retiro", usuario |-> ur,
                        monto |-> monto_r, hora |-> hhmm_text, aviso |-> "error_monto"]]
          /\ pc' = [pc EXCEPT ![s] = "exp_c"]
          /\ UNCHANGED retiros
     ELSE IF parse_time_any(hhmm_text) = NULL
     THEN /\ form' = [form EXCEPT ![s] = [kind |-> "retiro", usuario |-> ur,
                        monto |-> monto_r, hora |-> hhmm_text, aviso |-> "error_hora"]]
          /\ pc' = [pc EXCEPT ![s] = "exp_c"]
          /\ UNCHANGED retiros
     ELSE /\ retiros' = insertar_retiro(DB, PyStrip(ur), combine_today(parse_time_any(hhmm_text)),
                                        monto_r, puntos_por_monto(monto_r))
          /\ form' = [form EXCEPT ![s] = [kind |-> "retiro", usuario |-> ur,
                        monto |-> monto_r, hora |-> hhmm_text, aviso |-> "warning"]]
          /\ pc' = [pc EXCEPT ![s] = "start"]
  /\ UNCHANGED <<cargas, now, exp, arg, res>>

\* the script runs through with neither form submitted
Render(s) ==
  /\ pc[s] = "forms"
  /\ pc' = [pc EXCEPT ![s] = "exp_c"]
  /\ UNCHANGED <<cargas, retiros, now, form, exp, arg, res>>

\* make_full_export_zip: df_c = SELECT ... FROM cargas ORDER BY ts DESC
ExportCargas(s) ==
  /\ pc[s] = "exp_c"
  /\ exp' = [exp EXCEPT ![s] = [NoExport EXCEPT
                !.df_c = [i \in 1..Len(cargas) |->
                            ExportCargaRow(OrderByDesc(cargas, "ts")[i])]]]
  /\ form' = [form EXCEPT ![s] = NoForm]
  /\ pc' = [pc EXCEPT ![s] = "exp_r"]
  /\ UNCHANGED <<cargas, retiros, now, arg, res>>

\* make_full_export_zip: df_r = SELECT ... FROM retiros ORDER BY notificado_en DESC
ExportRetiros(s) ==
  /\ pc[s] = "exp_r"
  /\ exp' = [exp EXCEPT ![s].df_r = [i \in 1..Len(retiros) |->
                  ExportRetiroRow(OrderByDesc(retiros, "notificado_en")[i])]]
  /\ pc' = [pc EXCEPT ![s] = "exp_s"]
  /\ UNCHANGED <<cargas, retiros, now, form, arg, res>>

\* make_full_export_zip: df_s = resumen_general(conn)
ExportResumen(s) ==
  /\ pc[s] = "exp_s"
  /\ exp' = [exp EXCEPT ![s].df_s = resumen_general(DB)]
  /\ pc' = [pc EXCEPT ![s] = "exp_b"]
  /\ UNCHANGED <<cargas, retiros, now, form, arg, res>>

\* make_full_export_zip: the three CSV members are written, then the backup
ExportBackup(s) ==
  /\ pc[s] = "exp_b"
  /\ exp' = [exp EXCEPT ![s].backup = sqlite_backup_bytes(DB)]
  /\ pc' = [pc EXCEPT ![s] = "done"]
  /\ UNCHANGED <<cargas, retiros, now, form, arg, res>>

\* the next interaction re-runs the script from the top
Rerun(s) ==
  /\ pc[s] = "done"
  /\ exp' = [exp EXCEPT ![s] = NoExport]
  /\ pc' = [pc EXCEPT ![s] = "start"]
  /\ UNCHANGED <<cargas, retiros, now, form, arg, res>>

Next ==
  \/ Tick
  \/ \E s \in Sessions : init_db(s)
  \/ \E s \in Sessions : NormalizeUsers(s)
  \/ \E s \in Sessions, usuario \in RawUsers, monto \in Amounts : SubmitCarga(s, usuario, monto)
  \/ \E s \in Sessions, ur \in RawUsers, monto_r \in Amounts, hhmm_text \in HoraTexts :
        SubmitRetiro(s, ur, monto_r, hhmm_text)
  \/ \E s \in Sessions : Render(s)
  \/ \E s \in Sessions : ExportCargas(s)
  \/ \E s \in Sessions : ExportRetiros(s)
  \/ \E s \in Sessions : ExportResumen(s)
  \/ \E s \in Sessions : ExportBackup(s)
  \/ \E s \in Sessions : Rerun(s)

Spec == Init /\ [][Next]_vars

(* ------------------------ the points rule alone ------------------------ *)

InitPuntos ==
  /\ cargas = << >>
  /\ retiros = << >>
  /\ now = ClockStart
  /\ pc = [s \in Sessions |-> "start"]
  /\ form = [s \in Sessions |-> NoForm]
  /\ exp = [s \in Sessions |-> NoExport]
  /\ arg \in PtsAmounts
  /\ res = NULL

ApplyPuntos ==
  /\ res = NULL
  /\ res' = puntos_por_monto(arg)
  /\ UNCHANGED <<cargas, retiros, now, pc, form, exp, arg>>

\* the script with the drawn amount typed into either form
NextPuntos ==
  \/ ApplyPuntos
  \/ init_db(1)
  \/ NormalizeUsers(1)
  \/ SubmitCarga(1, <<"a">>, arg)
  \/ SubmitRetiro(1, <<"a">>, arg, "21:05")

SpecPuntos == InitPuntos /\ [][NextPuntos]_vars

(* --------------------- two sessions, one database ---------------------- *)

InitExport ==
  /\ cargas = << >>
  /\ retiros = << >>
  /\ now = ClockStart
  /\ pc = [s \in Sessions |-> "start"]
  /\ form = [s \in Sessions |-> NoForm]
  /\ exp = [s \in Sessions |-> NoExport]
  /\ arg = 0
  /\ res = NULL

NextExport ==
  \/ Tick
  \/ \E s \in Sessions : init_db(s)
  \/ \E s \in Sessions : NormalizeUsers(s)
  \/ \E s \in Sessions : SubmitCarga(s, <<"a">>, 2000)
  \/ \E s \in Sessions : SubmitRetiro(s, <<"a">>, 2000, "21:05")
  \/ \E s \in Sessions : Render(s)
  \/ \E s \in Sessions : ExportCargas(s)
  \/ \E s \in Sessions : ExportRetiros(s)
  \/ \E s \in Sessions : ExportResumen(s)
  \/ \E s \in Sessions : ExportBackup(s)
  \/ \E s \in Sessions : Rerun(s)

SpecExport == InitExport /\ [][NextExport]_vars

(* ------------------------------ properties ----------------------------- *)

\* a session stands after init_db and normalize_users, where the script reads
Readable == \E s \in Sessions : pc[s] \in {"forms", "exp_c", "exp_r", "exp_s", "exp_b", "done"}

\* the identifiers the script passes to its reads: the typed text, stripped
QueryUsers == {PyStrip(x) : x \in RawUsers} \ {<< >>}

Value(v) == IF v = NULL THEN 0 ELSE v

RECURSIVE SumIdx(_, _, _)
SumIdx(rows, I, col) ==
  IF I = {} THEN 0
  ELSE LET i == CHOOSE j \in I : TRUE
       IN  Value(rows[i][col]) + SumIdx(rows, I \ {i}, col)

\* the rows of a table that belong to the whitespace-trimmed identifier u
OfUser(rows, u) == {i \in 1..Len(rows) : PyStrip(rows[i].usuario) = PyStrip(u)}

\* the rows of a table stored under exactly the text u
StoredAs(rows, u) == {i \in 1..Len(rows) : rows[i].usuario = u}

\* the rows of a table whose space-trimmed text is u
TrimsTo(rows, u) == {i \in 1..Len(rows) : TRIM(rows[i].usuario) = u}

MaxOf(S) == IF S = {} THEN NULL ELSE CHOOSE x \in S : \A y \in S : y <= x

\* C1: wherever the script reads, the balance of every user u is the sum of
\* the points of the deposits of the whitespace-trimmed user u minus the sum
\* of the points of its withdrawals, negative when the withdrawals weigh more.
C1_BalanceIsSum ==
  Readable =>
    \A u \in QueryUsers :
      total_puntos_usuario(DB, u) =
        SumIdx(cargas, OfUser(cargas, u), "puntos")
          - SumIdx(retiros, OfUser(retiros, u), "puntos")

\* C2: wherever the script reads, resumen_general has exactly one row for
\* each distinct whitespace-trimmed identifier of either table, carrying the
\* sums of amounts and points over all entries with that trimmed identifier.
C2_OneRowPerTrimmedUser ==
  Readable =>
    LET rs  == resumen_general(DB)
        ids == {PyStrip(x) : x \in Usuarios(cargas) \cup Usuarios(retiros)}
    IN  /\ Len(rs) = Cardinality(ids)
        /\ \A u \in ids :
             \E i \in 1..Len(rs) :
               /\ rs[i].Usuario = u
               /\ rs[i].Monto_cargas = SumIdx(cargas, OfUser(cargas, u), "monto")
               /\ rs[i].Monto_descargas = SumIdx(retiros, OfUser(retiros, u), "monto")
               /\ rs[i].Puntos_cargas = SumIdx(cargas, OfUser(cargas, u), "puntos")
               /\ rs[i].Puntos_descargas = SumIdx(retiros, OfUser(retiros, u), "puntos")

\* C3: wherever the script reads, Ultimo_movimiento of every row of
\* resumen_general is the formatted latest timestamp of the user's entries
\* of both tables together.
C3_LastActivityIsLatest ==
  Readable =>
    LET rs == resumen_general(DB)
    IN  \A i \in 1..Len(rs) :
          rs[i].Ultimo_movimiento =
            strftime(MaxOf({cargas[j].ts : j \in TrimsTo(cargas, rs[i].Usuario)}
                     \cup {retiros[j].notificado_en : j \in TrimsTo(retiros, rs[i].Usuario)}))

\* what makes a submitted form one the script must reject
Invalid(f) ==
  \/ PyStrip(f.usuario) = << >>
  \/ f.monto < 2000
  \/ f.kind = "retiro" /\ parse_time_any(f.hora) = NULL

\* C4: a step that submits a form with a blank user, an amount below 2000
\* or, for a withdrawal, an unparseable time writes nothing and shows the
\* reason: both tables and the clock, of which every balance and every
\* history is a function, are as before.
C4_RejectedNoWrite ==
  [][\A s \in Sessions :
       (form'[s] # form[s] /\ form'[s].kind # "none" /\ Invalid(form'[s])) =>
         /\ cargas' = cargas
         /\ retiros' = retiros
         /\ form'[s].aviso \in {"error_usuario", "error_monto", "error_hora"}
         /\ now' = now]_vars

C4_Witness ==
  \E s \in Sessions :
    /\ form[s].kind = "retiro"
    /\ form[s].aviso = "error_hora"
    /\ Len(cargas) + Len(retiros) > 0

\* p hundredths is amount * 0.0002 rounded to two decimals
IsRounded(p, monto) == 50 * p - 25 <= monto /\ monto <= 50 * p + 25

\* C5: the points rule gives 0 below 2000 and the two-decimal rounding of
\* amount * 0.0002 from 2000 on (0.4 for 2000, 2.0 for 10000, 20.0 for
\* 100000); every entry stored by an accepted submission has such points,
\* at least 0.4.
C5_PointsRule ==
  /\ res # NULL =>
       /\ arg < 2000 => res = 0
       /\ arg >= 2000 => IsRounded(res, arg)
       /\ arg = 2000 => res = 40
       /\ arg = 10000 => res = 200
       /\ arg = 100000 => res = 2000
  /\ \A i \in 1..Len(cargas) :
       IsRounded(cargas[i].puntos, cargas[i].monto) /\ cargas[i].puntos >= 40
  /\ \A i \in 1..Len(retiros) :
       IsRounded(retiros[i].puntos, retiros[i].monto) /\ retiros[i].puntos >= 40

C5_Witness ==
  /\ res = 2000
  /\ arg = 100000
  /\ Len(cargas) > 0
  /\ Len(retiros) > 0

\* C6: wherever the script reads, the history of a user under any limit is
\* the user's deposits and withdrawals, newest first, cut to the limit most
\* recent ones: timestamps never increase down the list, a later withdrawal
\* stands before an earlier deposit, and a user without entries gets the
\* empty sequence.
C6_HistoryNewestFirst ==
  Readable =>
    \A u \in QueryUsers \cup {<<"b", "a">>}, limit \in (0..MaxLimit) \cup {200} :
      LET h   == historial_usuario(DB, u, limit)
          dts == [i \in StoredAs(cargas, u) |-> cargas[i].ts]
          dtr == [i \in StoredAs(retiros, u) |-> retiros[i].notificado_en]
          n   == Cardinality(DOMAIN dts) + Cardinality(DOMAIN dtr)
      IN  /\ Len(h) = Min(limit, n)
          /\ \A i, j \in 1..Len(h) : i < j => h[i].dt >= h[j].dt
          /\ \A i, j \in 1..Len(h) :
               (h[i].Tipo = "Carga" /\ h[j].Tipo = "Descarga" /\ h[j].dt > h[i].dt) => j < i
          /\ Len(h) > 0 =>
               Cardinality({i \in 1..Len(h) : h[i].dt > h[Len(h)].dt})
                 = Cardinality({i \in DOMAIN dts : dts[i] > h[Len(h)].dt})
                   + Cardinality({i \in DOMAIN dtr : dtr[i] > h[Len(h)].dt})
          /\ \A i \in 1..Len(h) :
               \/ /\ h[i].Tipo = "Carga"
                  /\ \E k \in DOMAIN dts :
                       /\ dts[k] = h[i].dt
                       /\ cargas[k].monto = h[i].Monto
                       /\ cargas[k].puntos = h[i].Puntos
               \/ /\ h[i].Tipo = "Descarga"
                  /\ \E k \in DOMAIN dtr :
                       /\ dtr[k] = h[i].dt
                       /\ retiros[k].monto = h[i].Monto
                       /\ 0 - Value(retiros[k].puntos) = h[i].Puntos
          /\ n = 0 => h = << >>

C6_Witness ==
  /\ Readable
  /\ \E u \in QueryUsers :
       LET h == historial_usuario(DB, u, 200)
       IN  /\ Len(h) >= 2
           /\ historial_usuario(DB, u, 1) = <<h[1]>>
           /\ h[1].Tipo = "Descarga"
           /\ h[2].Tipo = "Carga"
           /\ h[1].dt > h[2].dt

\* C7: in every state of the database, a second run of normalize_users
\* changes no row of what the first run left, and resumen_general after two
\* runs is resumen_general after one.
C7_NormalizeIdempotent ==
  LET once  == normalize_users(DB)
      twice == normalize_users(once)
  IN  /\ twice = once
      /\ resumen_general(twice) = resumen_general(once)
      /\ Readable => once = DB

\* the stored row from before this run, its identifier now trimmed
C7_Witness ==
  /\ pc[1] = "forms"
  /\ Len(retiros) > 0
  /\ retiros[1].monto = NULL
  /\ retiros[1].usuario = <<"a">>

\* an accepted submission shows its success or warning message
Accepted(f) == f.kind # "none" /\ f.aviso \in {"success", "warning"}

Ids(rows) == {rows[i].id : i \in 1..Len(rows)}

\* C8 as stated: no step removes a stored entry or changes any field of
\* one, and a step adds an entry exactly when it is an accepted submission,
\* then exactly one, with a fresh id, to one table.
C8_NeverMutated ==
  [][/\ Len(cargas') >= Len(cargas)
     /\ Len(retiros') >= Len(retiros)
     /\ \A i \in 1..Len(cargas) : cargas'[i] = cargas[i]
     /\ \A i \in 1..Len(retiros) : retiros'[i] = retiros[i]
     /\ (Len(cargas') + Len(retiros') # Len(cargas) + Len(retiros)) <=>
          (\E s \in Sessions : form'[s] # form[s] /\ Accepted(form'[s]))
     /\ Len(cargas') + Len(retiros') <= Len(cargas) + Len(retiros) + 1
     /\ Len(cargas') > Len(cargas) => cargas'[Len(cargas')].id \notin Ids(cargas)
     /\ Len(retiros') > Len(retiros) => retiros'[Len(retiros')].id \notin Ids(retiros)]_vars

\* C8 amended: no step removes a stored entry or changes its id, amount or
\* points; init_db alone changes a timestamp, and only a NULL one, to the
\* current time; normalize_users alone changes an identifier, to its
\* space-trimmed form; every other step leaves the stored entries as they
\* are; a step adds an entry exactly when it is an accepted submission, then
\* exactly one, with a fresh id, to one table.
C8_OnlyRepairsMutate ==
  [][/\ Len(cargas') >= Len(cargas)
     /\ Len(retiros') >= Len(retiros)
     /\ \A i \in 1..Len(cargas) :
          /\ cargas'[i].id = cargas[i].id
          /\ cargas'[i].monto = cargas[i].monto
          /\ cargas'[i].puntos = cargas[i].puntos
          /\ \/ cargas'[i].ts = cargas[i].ts
             \/ /\ cargas[i].ts = NULL
                /\ cargas'[i].ts = now
                /\ \E s \in Sessions : pc[s] = "start" /\ pc'[s] = "init"
          /\ \/ cargas'[i].usuario = cargas[i].usuario
             \/ /\ cargas'[i].usuario = TRIM(cargas[i].usuario)
                /\ \E s \in Sessions : pc[s] = "init" /\ pc'[s] = "forms"
     /\ \A i \in 1..Len(retiros) :
          /\ retiros'[i].id = retiros[i].id
          /\ retiros'[i].monto = retiros[i].monto
          /\ retiros'[i].puntos = retiros[i].puntos
          /\ \/ retiros'[i].notificado_en = retiros[i].notificado_en
             \/ /\ retiros[i].notificado_en = NULL
                /\ retiros'[i].notificado_en = now
                /\ \E s \in Sessions : pc[s] = "start" /\ pc'[s] = "init"
          /\ \/ retiros'[i].usuario = retiros[i].usuario
             \/ /\ retiros'[i].usuario = TRIM(retiros[i].usuario)
                /\ \E s \in Sessions : pc[s] = "init" /\ pc'[s] = "forms"
     /\ (Len(cargas') + Len(retiros') # Len(cargas) + Len(retiros)) <=>
          (\E s \in Sessions : form'[s] # form[s] /\ Accepted(form'[s]))
     /\ Len(cargas') + Len(retiros') <= Len(cargas) + Len(retiros) + 1
     /\ Len(cargas') > Len(cargas) => cargas'[Len(cargas')].id \notin Ids(cargas)
     /\ Len(retiros') > Len(retiros) => retiros'[Len(retiros')].id \notin Ids(retiros)]_vars

\* an accepted deposit on top of a stored row from before this run
C8_Witness ==
  \E s \in Sessions :
    /\ form[s].kind = "carga"
    /\ form[s].aviso = "success"
    /\ Len(cargas) >= 2
    /\ cargas[1].ts = OldTs

\* C9: the archive a finished make_full_export_zip holds is of one state of
\* the database: its deposits table and its withdrawals table list exactly
\* the entries of its backup, and its summary is the summary of its backup.
C9_SnapshotConsistent ==
  \A s \in Sessions :
    pc[s] = "done" =>
      LET e == exp[s]
      IN  /\ {e.df_c[i].id : i \in 1..Len(e.df_c)} = Ids(e.backup.cargas)
          /\ {e.df_r[i].id : i \in 1..Len(e.df_r)} = Ids(e.backup.retiros)
          /\ e.df_s = resumen_general(e.backup)

\* C10: wherever the script reads, Puntos_actuales of every row of
\* resumen_general is total_puntos_usuario of the row's identifier, and
\* every identifier of list_usuarios is the identifier of exactly one row.
C10_BalancesAgree ==
  Readable =>
    LET rs == resumen_general(DB)
        lu == list_usuarios(DB)
    IN  /\ \A i \in 1..Len(rs) :
             rs[i].Puntos_actuales = total_puntos_usuario(DB, rs[i].Usuario)
        /\ \A j \in 1..Len(lu) :
             Cardinality({i \in 1..Len(rs) : rs[i].Usuario = lu[j]}) = 1

C10_Witness ==
  /\ Readable
  /\ Len(list_usuarios(DB)) >= 2
  /\ \E i \in 1..Len(resumen_general(DB)) :
       /\ resumen_general(DB)[i].Puntos_cargas > 0
       /\ resumen_general(DB)[i].Puntos_descargas > 0
       /\ resumen_general(DB)[i].Puntos_actuales < 0

====
